---- MODULE Spec2Model ----
(***************************************************************************)
(* Model of the session manager of go_true (src/src/client.rs).            *)
(*                                                                         *)
(* A Client holds current_session and current_user.  Every operation is    *)
(* an async fn with exactly one await point, the call to the Api (the      *)
(* Gateway).  Each operation is therefore modelled by two actions:         *)
(*   <op>_begin    the code up to and including the issue of the Api call  *)
(*                 (or the early return when a precondition fails);        *)
(*   <op>_complete the code from the Api's answer to the return.           *)
(* The answer of the Api is an input, drawn from a small set.              *)
(*                                                                         *)
(* Option<T> is modelled as a sequence of length 0 (None) or 1 (Some).     *)
(***************************************************************************)
EXTENDS Integers, Sequences, FiniteSets, TLC

None == <<>>

Some(x) == <<x>>

IsSome(o) == Len(o) = 1

IsNone(o) == Len(o) = 0

Unwrap(o) == o[1]

Option(S) == {None} \cup {Some(x) : x \in S}

(***************************************************************************)
(* Data                                                                    *)
(***************************************************************************)
Clients == {"c1"}

AccessTokens == {"", "t1", "t2"}

RefreshTokens == {"r1", "r2"}

TokenTypes == {"bearer"}

\* session.rs: struct Session.  provider_token, expires_in and user are
\* optional pass-through fields that no code of the client reads.
Session == [access_token : AccessTokens,
            token_type : TokenTypes,
            refresh_token : Option(RefreshTokens)]

\* The JSON value the Api returns for sign_up / sign_in.  A key is either
\* missing (None) or carries a string.  id stands for the keys a User needs.
Payloads == [access_token : Option(AccessTokens),
             token_type : Option(TokenTypes),
             refresh_token : Option(RefreshTokens),
             id : Option({"u1"})]

\* user.rs: struct User, reduced to its identifier.
User == [id : {"u1"}]

\* serde_json::from_value::<Session>(v).ok(): access_token and token_type
\* are required keys, refresh_token is optional.
DecodeSession(v) ==
    IF IsSome(v.access_token) /\ IsSome(v.token_type)
    THEN Some([access_token |-> Unwrap(v.access_token),
               token_type |-> Unwrap(v.token_type),
               refresh_token |-> v.refresh_token])
    ELSE None

\* serde_json::from_value::<User>(v).ok()
DecodeUser(v) ==
    IF IsSome(v.id) THEN Some([id |-> Unwrap(v.id)]) ELSE None

(***************************************************************************)
(* Transport errors: reqwest's is_status() and status().                   *)
(***************************************************************************)
StatusCodes == {400, 401, 422, 500}

TransportErrors ==
    {[is_status |-> TRUE, status |-> Some(s)] : s \in StatusCodes}
    \cup {[is_status |-> FALSE, status |-> None]}

Digits == <<"0", "1", "2", "3", "4", "5", "6", "7", "8", "9">>

\* StatusCode::as_str: the three decimal digits of the code
as_str(s) ==
    Digits[(s \div 100) + 1] \o Digits[((s \div 10) % 10) + 1] \o Digits[(s % 10) + 1]

\* e.is_status() && e.status().unwrap().as_str() == code
HasStatus(e, code) == e.is_status /\ as_str(Unwrap(e.status)) = code

\* Result<T, reqwest::Error>, the answer of an Api call
Ok(v) == [ok |-> TRUE, value |-> Some(v), error |-> None]

Err(e) == [ok |-> FALSE, value |-> None, error |-> Some(e)]

(***************************************************************************)
(* State                                                                   *)
(***************************************************************************)
VARIABLES
    current_session,  \* Client.current_session, per instance
    current_user,     \* Client.current_user, per instance
    pending,          \* the Api call an instance awaits, if any
    answer,           \* the Api's answer to the last call of an instance
    ret,              \* the value the last completed invocation returned
    calls,            \* Api calls issued by the current / last invocation
    before,           \* the fields of the instance when that invocation began
    established       \* the session the last successful sign_up, sign_in,
                      \* refresh_session or set_session returned, if no sign_up,
                      \* sign_in or verify_otp was entered since

vars == <<current_session, current_user, pending, answer, ret, calls, before,
          established>>

\* Client::new
Init ==
    /\ current_session = [c \in Clients |-> None]
    /\ current_user = [c \in Clients |-> None]
    /\ pending = [c \in Clients |-> None]
    /\ answer = [c \in Clients |-> None]
    /\ ret = [c \in Clients |-> None]
    /\ calls = [c \in Clients |-> 0]
    /\ before = [c \in Clients |-> [session |-> None, user |-> None, args |-> <<>>]]
    /\ established = [c \in Clients |-> None]

\* No operation of instance c is in flight.  sign_up, sign_in, verify_otp,
\* refresh_session and set_session take &mut self: the borrow is exclusive
\* from the entry to the return, so none of them is entered while another
\* operation of the instance is in flight.  The operations on &self are
\* modelled in the same, sequential, use.
Idle(c) == IsNone(pending[c])

Awaits(c, op) == IsSome(pending[c]) /\ Unwrap(pending[c]).op = op

\* the value an invocation hands back to its caller
Returned(op, result, session, user, update) ==
    Some([op |-> op, ok |-> result = "Ok", err |-> result,
          session |-> session, user |-> user, update |-> update])

Return(op, result, session, user) == Returned(op, result, session, user, None)

\* the fields of instance c and the arguments args of the invocation entered
Snapshot(c, args) ==
    [session |-> current_session[c], user |-> current_user[c], args |-> args]

\* the operations that start a new authentication attempt
AttemptOps == {"sign_up", "sign_in", "verify_otp"}

\* the operations whose success returns a session to the caller
GrantingOps == {"sign_up", "sign_in", "refresh_session", "set_session"}

\* an invocation with arguments args that goes on to issue one Api call
\* carrying request
Issue(c, op, args, request) ==
    /\ pending' = [pending EXCEPT ![c] = Some([op |-> op, request |-> request])]
    /\ answer' = [answer EXCEPT ![c] = None]
    /\ ret' = [ret EXCEPT ![c] = None]
    /\ calls' = [calls EXCEPT ![c] = 1]
    /\ before' = [before EXCEPT ![c] = Snapshot(c, args)]
    /\ established' = IF op \in AttemptOps
                      THEN [established EXCEPT ![c] = None]
                      ELSE established

\* an invocation with arguments args that returns Err(err) before any Api call
ShortCircuit(c, op, args, err) ==
    /\ pending' = pending
    /\ answer' = [answer EXCEPT ![c] = None]
    /\ ret' = [ret EXCEPT ![c] = Return(op, err, None, None)]
    /\ calls' = [calls EXCEPT ![c] = 0]
    /\ before' = [before EXCEPT ![c] = Snapshot(c, args)]
    /\ UNCHANGED established

\* the return of an invocation whose Api call was answered by a
Finish(c, a, r) ==
    /\ pending' = [pending EXCEPT ![c] = None]
    /\ answer' = [answer EXCEPT ![c] = Some(a)]
    /\ ret' = [ret EXCEPT ![c] = r]
    /\ established' = IF Unwrap(r).ok /\ Unwrap(r).op \in GrantingOps
                      THEN [established EXCEPT ![c] = Unwrap(r).session]
                      ELSE established
    /\ UNCHANGED <<calls, before>>

(***************************************************************************)
(* Inputs of the operations                                                *)
(***************************************************************************)
EmailOrPhone == {[variant |-> "Email", value |-> "a@b.com"],
                 [variant |-> "Phone", value |-> "+15550100"]}

Passwords == {"Abcd1234!"}

OtpParams == {[type |-> "sms", token |-> "123456"]}

Emails == {"a@b.com"}

\* user.rs: struct UserAttributes (all fields optional)
UserAttributes == [email : Option(Emails), password : Option(Passwords)]

\* user.rs: struct UserUpdate, reduced to id and email
UserUpdate == [id : {"u1"}, email : Emails]

\* the refresh_token argument of set_session
TokenStrings == {""} \cup RefreshTokens

\* remove_session that forgets the assignment
remove_session_keep(c) == current_session

\* remove_session on a session shared by every instance of the process
remove_session_all(c) == [d \in DOMAIN current_session |-> None]

\* Client::remove_session
remove_session(c) == [current_session EXCEPT ![c] = None]

(***************************************************************************)
(* sign_up                                                                 *)
(***************************************************************************)
sign_up_error(e) ==
    IF HasStatus(e, "400") THEN "AlreadySignedUp" ELSE "InternalError"

sign_up_begin(c) ==
    /\ Idle(c)
    /\ \E email_or_phone \in EmailOrPhone, password \in Passwords :
          Issue(c, "sign_up", <<email_or_phone, password>>, <<email_or_phone, password>>)
    /\ current_session' = remove_session(c)
    /\ UNCHANGED current_user

\* sign_up that caches the decoded User in current_user
sign_up_ok_caches_user(c, result) ==
    /\ current_session' = [current_session EXCEPT ![c] = DecodeSession(result)]
    /\ current_user' = [current_user EXCEPT ![c] = DecodeUser(result)]
    /\ Finish(c, Ok(result),
              Return("sign_up", "Ok", DecodeSession(result), DecodeUser(result)))

sign_up_ok(c, result) ==
    /\ current_session' = [current_session EXCEPT ![c] = DecodeSession(result)]
    /\ Finish(c, Ok(result),
              Return("sign_up", "Ok", DecodeSession(result), DecodeUser(result)))
    /\ UNCHANGED current_user

sign_up_err(c, e) ==
    /\ Finish(c, Err(e), Return("sign_up", sign_up_error(e), None, None))
    /\ UNCHANGED <<current_session, current_user>>

sign_up_complete(c) ==
    /\ Awaits(c, "sign_up")
    /\ \/ \E result \in Payloads : sign_up_ok(c, result)
       \/ \E e \in TransportErrors : sign_up_err(c, e)

(***************************************************************************)
(* sign_in                                                                 *)
(***************************************************************************)
sign_in_error(e) ==
    IF HasStatus(e, "400") THEN "WrongCredentials" ELSE "InternalError"

\* sign_in on a shared borrow: it may be entered while another operation
\* of the instance is in flight
sign_in_begin_shared(c) ==
    /\ \E email_or_phone \in EmailOrPhone, password \in Passwords :
          Issue(c, "sign_in", <<email_or_phone, password>>, <<email_or_phone, password>>)
    /\ current_session' = remove_session(c)
    /\ UNCHANGED current_user

sign_in_begin(c) ==
    /\ Idle(c)
    /\ \E email_or_phone \in EmailOrPhone, password \in Passwords :
          Issue(c, "sign_in", <<email_or_phone, password>>, <<email_or_phone, password>>)
    /\ current_session' = remove_session(c)
    /\ UNCHANGED current_user

\* sign_in that returns the decoded session without storing it
sign_in_ok_unstored(c, result) ==
    /\ Finish(c, Ok(result),
              Return("sign_in", "Ok", DecodeSession(result), DecodeUser(result)))
    /\ UNCHANGED <<current_session, current_user>>

\* url and provider of return_data::SignIn are always their default, None
sign_in_ok(c, result) ==
    /\ current_session' = [current_session EXCEPT ![c] = DecodeSession(result)]
    /\ Finish(c, Ok(result),
              Return("sign_in", "Ok", DecodeSession(result), DecodeUser(result)))
    /\ UNCHANGED current_user

sign_in_err(c, e) ==
    /\ Finish(c, Err(e), Return("sign_in", sign_in_error(e), None, None))
    /\ UNCHANGED <<current_session, current_user>>

sign_in_complete(c) ==
    /\ Awaits(c, "sign_in")
    /\ \/ \E result \in Payloads : sign_in_ok(c, result)
       \/ \E e \in TransportErrors : sign_in_err(c, e)

(***************************************************************************)
(* send_otp                                                                *)
(***************************************************************************)
\* send_otp that distinguishes 400, as the other operations do
send_otp_error_400(e) ==
    IF HasStatus(e, "400") THEN "UserNotFound" ELSE "InternalError"

send_otp_error(e) ==
    IF HasStatus(e, "422") THEN "UserNotFound" ELSE "InternalError"

send_otp_begin(c) ==
    /\ Idle(c)
    /\ \E email_or_phone \in EmailOrPhone, should_create_user \in Option(BOOLEAN) :
          Issue(c, "send_otp", <<email_or_phone, should_create_user>>,
                <<email_or_phone, should_create_user>>)
    /\ UNCHANGED <<current_session, current_user>>

send_otp_ok(c, result) ==
    /\ Finish(c, Ok(result), Return("send_otp", "Ok", None, None))
    /\ UNCHANGED <<current_session, current_user>>

send_otp_err(c, e) ==
    /\ Finish(c, Err(e), Return("send_otp", send_otp_error(e), None, None))
    /\ UNCHANGED <<current_session, current_user>>

send_otp_complete(c) ==
    /\ Awaits(c, "send_otp")
    /\ \/ \E result \in Payloads : send_otp_ok(c, result)
       \/ \E e \in TransportErrors : send_otp_err(c, e)

(***************************************************************************)
(* verify_otp                                                              *)
(***************************************************************************)
verify_otp_error(e) ==
    IF HasStatus(e, "400") THEN "WrongToken" ELSE "InternalError"

\* verify_otp that leaves the held session in place
verify_otp_begin_keeps(c) ==
    /\ Idle(c)
    /\ \E params \in OtpParams : Issue(c, "verify_otp", <<params>>, <<params>>)
    /\ UNCHANGED <<current_session, current_user>>

verify_otp_begin(c) ==
    /\ Idle(c)
    /\ \E params \in OtpParams : Issue(c, "verify_otp", <<params>>, <<params>>)
    /\ current_session' = [current_session EXCEPT ![c] = None]
    /\ UNCHANGED current_user

\* verify_otp that adopts the session of the answer, as sign_in does
verify_otp_ok_adopts(c, result) ==
    /\ current_session' = [current_session EXCEPT ![c] = DecodeSession(result)]
    /\ Finish(c, Ok(result), Return("verify_otp", "Ok", None, None))
    /\ UNCHANGED current_user

verify_otp_ok(c, result) ==
    /\ Finish(c, Ok(result), Return("verify_otp", "Ok", None, None))
    /\ UNCHANGED <<current_session, current_user>>

verify_otp_err(c, e) ==
    /\ Finish(c, Err(e), Return("verify_otp", verify_otp_error(e), None, None))
    /\ UNCHANGED <<current_session, current_user>>

verify_otp_complete(c) ==
    /\ Awaits(c, "verify_otp")
    /\ \/ \E result \in Payloads : verify_otp_ok(c, result)
       \/ \E e \in TransportErrors : verify_otp_err(c, e)

(***************************************************************************)
(* sign_out                                                                *)
(***************************************************************************)
sign_out_begin(c) ==
    /\ Idle(c)
    /\ IF IsSome(current_session[c])
       THEN Issue(c, "sign_out", <<>>, <<Unwrap(current_session[c]).access_token>>)
       ELSE ShortCircuit(c, "sign_out", <<>>, "NotAuthenticated")
    /\ UNCHANGED <<current_session, current_user>>

\* sign_out that clears the session once the Api has confirmed
sign_out_ok_clears(c, result) ==
    /\ current_session' = remove_session(c)
    /\ Finish(c, Ok(result), Return("sign_out", "Ok", None, None))
    /\ UNCHANGED current_user

sign_out_ok(c, result) ==
    /\ Finish(c, Ok(result), Return("sign_out", "Ok", None, None))
    /\ UNCHANGED <<current_session, current_user>>

\* sign_out that maps a failure as reset_password_for_email does
sign_out_err_notfound(c, e) ==
    /\ Finish(c, Err(e), Return("sign_out", "UserNotFound", None, None))
    /\ UNCHANGED <<current_session, current_user>>

sign_out_err(c, e) ==
    /\ Finish(c, Err(e), Return("sign_out", "InternalError", None, None))
    /\ UNCHANGED <<current_session, current_user>>

sign_out_complete(c) ==
    /\ Awaits(c, "sign_out")
    /\ \/ \E result \in Payloads : sign_out_ok(c, result)
       \/ \E e \in TransportErrors : sign_out_err(c, e)

(***************************************************************************)
(* reset_password_for_email                                                *)
(***************************************************************************)
reset_password_for_email_begin(c) ==
    /\ Idle(c)
    /\ \E email \in Emails : Issue(c, "reset_password_for_email", <<email>>, <<email>>)
    /\ UNCHANGED <<current_session, current_user>>

reset_password_for_email_ok(c, result) ==
    /\ Finish(c, Ok(result), Return("reset_password_for_email", "Ok", None, None))
    /\ UNCHANGED <<current_session, current_user>>

\* reset_password_for_email that maps a failure as update_user does
reset_password_for_email_err_status(c, e) ==
    /\ Finish(c, Err(e),
              Return("reset_password_for_email",
                     IF HasStatus(e, "400") THEN "UserNotFound" ELSE "InternalError",
                     None, None))
    /\ UNCHANGED <<current_session, current_user>>

reset_password_for_email_err(c, e) ==
    /\ Finish(c, Err(e), Return("reset_password_for_email", "UserNotFound", None, None))
    /\ UNCHANGED <<current_session, current_user>>

reset_password_for_email_complete(c) ==
    /\ Awaits(c, "reset_password_for_email")
    /\ \/ \E result \in Payloads : reset_password_for_email_ok(c, result)
       \/ \E e \in TransportErrors : reset_password_for_email_err(c, e)

(***************************************************************************)
(* update_user                                                             *)
(***************************************************************************)
update_user_error(e) ==
    IF HasStatus(e, "400") THEN "UserNotFound" ELSE "InternalError"

\* update_user that calls the Api with an empty token when no session is held
update_user_begin_unchecked(c) ==
    /\ Idle(c)
    /\ \E user \in UserAttributes :
          Issue(c, "update_user", <<user>>,
                <<user, IF IsSome(current_session[c])
                        THEN Unwrap(current_session[c]).access_token ELSE "">>)
    /\ UNCHANGED <<current_session, current_user>>

update_user_begin(c) ==
    /\ Idle(c)
    /\ \E user \in UserAttributes :
          IF IsSome(current_session[c])
          THEN Issue(c, "update_user", <<user>>,
                     <<user, Unwrap(current_session[c]).access_token>>)
          ELSE ShortCircuit(c, "update_user", <<user>>, "NotAuthenticated")
    /\ UNCHANGED <<current_session, current_user>>

update_user_ok(c, user) ==
    /\ Finish(c, Ok(user), Returned("update_user", "Ok", None, None, Some(user)))
    /\ UNCHANGED <<current_session, current_user>>

update_user_err(c, e) ==
    /\ Finish(c, Err(e), Return("update_user", update_user_error(e), None, None))
    /\ UNCHANGED <<current_session, current_user>>

update_user_complete(c) ==
    /\ Awaits(c, "update_user")
    /\ \/ \E user \in UserUpdate : update_user_ok(c, user)
       \/ \E e \in TransportErrors : update_user_err(c, e)

(***************************************************************************)
(* refresh_session                                                         *)
(***************************************************************************)
\* refresh_session that reports a missing refresh token as NotAuthenticated
refresh_session_begin_conflated(c) ==
    /\ Idle(c)
    /\ IF IsSome(current_session[c]) /\ IsSome(Unwrap(current_session[c]).refresh_token)
       THEN Issue(c, "refresh_session", <<>>,
                  <<Unwrap(Unwrap(current_session[c]).refresh_token)>>)
       ELSE ShortCircuit(c, "refresh_session", <<>>, "NotAuthenticated")
    /\ UNCHANGED <<current_session, current_user>>

refresh_session_begin(c) ==
    /\ Idle(c)
    /\ IF IsNone(current_session[c])
       THEN ShortCircuit(c, "refresh_session", <<>>, "NotAuthenticated")
       ELSE IF IsSome(Unwrap(current_session[c]).refresh_token)
       THEN Issue(c, "refresh_session", <<>>,
                  <<Unwrap(Unwrap(current_session[c]).refresh_token)>>)
       ELSE ShortCircuit(c, "refresh_session", <<>>, "MissingRefreshToken")
    /\ UNCHANGED <<current_session, current_user>>

\* refresh_session that keeps the old refresh token when the new session has none
refresh_session_ok_merge(c, session) ==
    LET merged == IF IsNone(session.refresh_token)
                  THEN [session EXCEPT !.refresh_token =
                                           Unwrap(current_session[c]).refresh_token]
                  ELSE session
    IN /\ current_session' = [current_session EXCEPT ![c] = Some(merged)]
       /\ Finish(c, Ok(session), Return("refresh_session", "Ok", Some(merged), None))
       /\ UNCHANGED current_user

refresh_session_ok(c, session) ==
    /\ current_session' = [current_session EXCEPT ![c] = Some(session)]
    /\ Finish(c, Ok(session), Return("refresh_session", "Ok", Some(session), None))
    /\ UNCHANGED current_user

\* refresh_session that calls the Api once more after a first failure
refresh_session_err_retry(c, e) ==
    /\ IF calls[c] < 2
       THEN /\ answer' = [answer EXCEPT ![c] = Some(Err(e))]
            /\ calls' = [calls EXCEPT ![c] = calls[c] + 1]
            /\ UNCHANGED <<pending, ret, before, established>>
       ELSE Finish(c, Err(e), Return("refresh_session", "InternalError", None, None))
    /\ UNCHANGED <<current_session, current_user>>

refresh_session_err(c, e) ==
    /\ Finish(c, Err(e), Return("refresh_session", "InternalError", None, None))
    /\ UNCHANGED <<current_session, current_user>>

refresh_session_complete(c) ==
    /\ Awaits(c, "refresh_session")
    /\ \/ \E session \in Session : refresh_session_ok(c, session)
       \/ \E e \in TransportErrors : refresh_session_err(c, e)

(***************************************************************************)
(* set_session                                                             *)
(***************************************************************************)
\* set_session without the check of the token's length
set_session_begin_unchecked(c) ==
    /\ Idle(c)
    /\ \E refresh_token \in TokenStrings :
          Issue(c, "set_session", <<refresh_token>>, <<refresh_token>>)
    /\ UNCHANGED <<current_session, current_user>>

set_session_begin(c) ==
    /\ Idle(c)
    /\ \E refresh_token \in TokenStrings :
          IF Len(refresh_token) < 1
          THEN ShortCircuit(c, "set_session", <<refresh_token>>, "NotAuthenticated")
          ELSE Issue(c, "set_session", <<refresh_token>>, <<refresh_token>>)
    /\ UNCHANGED <<current_session, current_user>>

set_session_ok(c, session) ==
    /\ current_session' = [current_session EXCEPT ![c] = Some(session)]
    /\ Finish(c, Ok(session), Return("set_session", "Ok", Some(session), None))
    /\ UNCHANGED current_user

\* set_session that drops the held session when the Api fails
set_session_err_clears(c, e) ==
    /\ current_session' = remove_session(c)
    /\ Finish(c, Err(e), Return("set_session", "InternalError", None, None))
    /\ UNCHANGED current_user

set_session_err(c, e) ==
    /\ Finish(c, Err(e), Return("set_session", "InternalError", None, None))
    /\ UNCHANGED <<current_session, current_user>>

set_session_complete(c) ==
    /\ Awaits(c, "set_session")
    /\ \/ \E session \in Session : set_session_ok(c, session)
       \/ \E e \in TransportErrors : set_session_err(c, e)

Next ==
    \E c \in Clients :
        \/ sign_up_begin(c)
        \/ sign_up_complete(c)
        \/ sign_in_begin(c)
        \/ sign_in_complete(c)
        \/ send_otp_begin(c)
        \/ send_otp_complete(c)
        \/ verify_otp_begin(c)
        \/ verify_otp_complete(c)
        \/ sign_out_begin(c)
        \/ sign_out_complete(c)
        \/ reset_password_for_email_begin(c)
        \/ reset_password_for_email_complete(c)
        \/ update_user_begin(c)
        \/ update_user_complete(c)
        \/ refresh_session_begin(c)
        \/ refresh_session_complete(c)
        \/ set_session_begin(c)
        \/ set_session_complete(c)

Spec == Init /\ [][Next]_vars

(***************************************************************************)
(* Two instances in one process.  The inputs are narrowed to one access    *)
(* token, one refresh token, one principal and two transport errors, so    *)
(* that the product of the two instances' states stays small.              *)
(***************************************************************************)
Instances == {"c1", "c2"}

\* Client::new, twice
InitTwo ==
    /\ current_session = [c \in Instances |-> None]
    /\ current_user = [c \in Instances |-> None]
    /\ pending = [c \in Instances |-> None]
    /\ answer = [c \in Instances |-> None]
    /\ ret = [c \in Instances |-> None]
    /\ calls = [c \in Instances |-> 0]
    /\ before = [c \in Instances |-> [session |-> None, user |-> None, args |-> <<>>]]
    /\ established = [c \in Instances |-> None]

\* the operation instance c is in, or was in last
LastOp(c) ==
    IF IsSome(pending[c]) THEN Unwrap(pending[c]).op
    ELSE IF IsSome(ret[c]) THEN Unwrap(ret[c]).op
    ELSE "none"

\* the arguments of the invocation of c are among the narrowed inputs
NarrowArgs(c) ==
    LET args == before[c].args
        op == LastOp(c)
    IN CASE op \in {"sign_up", "sign_in"} -> args[1].variant = "Email"
         [] op = "send_otp" -> args[1].variant = "Email" /\ args[2] = None
         [] op = "update_user" -> args[1].email = None /\ args[1].password = None
         [] op = "set_session" -> args[1] # "r2"
         [] OTHER -> TRUE

\* the answer of the Api to c is among the narrowed inputs
NarrowAnswer(c) ==
    IF IsNone(answer[c]) \/ IsNone(ret[c]) THEN TRUE
    ELSE LET a == Unwrap(answer[c])
             op == LastOp(c)
         IN IF ~a.ok
            THEN Unwrap(a.error).status \in {None, Some(400)}
            ELSE LET v == Unwrap(a.value)
                 IN CASE op \in {"refresh_session", "set_session"} ->
                            v.access_token = "t1" /\ v.refresh_token # Some("r2")
                      [] op = "update_user" -> TRUE
                      [] OTHER ->
                            /\ v.access_token \in {None, Some("t1")}
                            /\ v.token_type = Some("bearer")
                            /\ v.refresh_token # Some("r2")
                            /\ v.id = None

Narrow == \A c \in Instances : NarrowArgs(c) /\ NarrowAnswer(c)

NextTwo ==
    \E c \in Instances :
        \/ sign_up_begin(c) /\ Narrow'
        \/ sign_up_complete(c) /\ Narrow'
        \/ sign_in_begin(c) /\ Narrow'
        \/ sign_in_complete(c) /\ Narrow'
        \/ send_otp_begin(c) /\ Narrow'
        \/ send_otp_complete(c) /\ Narrow'
        \/ verify_otp_begin(c) /\ Narrow'
        \/ verify_otp_complete(c) /\ Narrow'
        \/ sign_out_begin(c) /\ Narrow'
        \/ sign_out_complete(c) /\ Narrow'
        \/ reset_password_for_email_begin(c) /\ Narrow'
        \/ reset_password_for_email_complete(c) /\ Narrow'
        \/ update_user_begin(c) /\ Narrow'
        \/ update_user_complete(c) /\ Narrow'
        \/ refresh_session_begin(c) /\ Narrow'
        \/ refresh_session_complete(c) /\ Narrow'
        \/ set_session_begin(c) /\ Narrow'
        \/ set_session_complete(c) /\ Narrow'

SpecTwo == InitTwo /\ [][NextTwo]_vars

(***************************************************************************)
(* Properties                                                              *)
(*                                                                         *)
(* The error kinds carry the names of the source.  The specification calls *)
(* AlreadySignedUp AlreadyRegistered, WrongCredentials InvalidCredentials, *)
(* UserNotFound AccountNotFound, WrongToken InvalidToken, NotAuthenticated *)
(* Unauthenticated and InternalError Internal.                             *)
(***************************************************************************)
Returns(c, op) == IsSome(ret[c]) /\ Unwrap(ret[c]).op = op

Result(c) == Unwrap(ret[c])

\* the Api's call of the last invocation of c failed with a transport error
Failed(c) == IsSome(answer[c]) /\ ~Unwrap(answer[c]).ok

\* the Api's call of the last invocation of c succeeded
Succeeded(c) == IsSome(answer[c]) /\ Unwrap(answer[c]).ok

PreClearOps == {"sign_up", "sign_in", "verify_otp"}

\* C1: while a sign_up, sign_in or verify_otp call awaits the Api,
\* current_session is absent; after such a call has failed it is absent;
\* and when it is present after such a call, the call was a successful
\* sign_up or sign_in that returned that very session.
C1_PreClear ==
    \A c \in Clients :
        /\ (\E op \in PreClearOps : Awaits(c, op)) => current_session[c] = None
        /\ \A op \in PreClearOps :
              Returns(c, op) =>
                 /\ ~Result(c).ok => current_session[c] = None
                 /\ IsSome(current_session[c]) =>
                       /\ op \in {"sign_up", "sign_in"}
                       /\ Result(c).ok
                       /\ Succeeded(c)
                       /\ Result(c).session = current_session[c]

\* a sign_in entered with a session held has failed
C1_Witness ==
    \E c \in Clients :
        /\ Returns(c, "sign_in")
        /\ IsSome(before[c].session)
        /\ Failed(c)
        /\ current_session[c] = None

SessionOps == {"sign_out", "update_user", "refresh_session"}

\* C2: sign_out, update_user and refresh_session entered with no session
\* held never reach the Api: they return NotAuthenticated, issue no Api call
\* and leave current_session and current_user as they were.
C2_ShortCircuit ==
    \A c \in Clients : \A op \in SessionOps :
        /\ Awaits(c, op) => IsSome(before[c].session)
        /\ (Returns(c, op) /\ IsNone(before[c].session)) =>
              /\ Result(c).err = "NotAuthenticated"
              /\ calls[c] = 0
              /\ IsNone(answer[c])
              /\ current_session[c] = before[c].session
              /\ current_user[c] = before[c].user

\* update_user entered with no session has returned
C2_Witness ==
    \E c \in Clients :
        /\ Returns(c, "update_user")
        /\ IsNone(before[c].session)
        /\ Result(c).err = "NotAuthenticated"

\* C3: refresh_session entered with a session that has no refresh token
\* returns MissingRefreshToken, issues no Api call and leaves the session.
C3_MissingRefreshToken ==
    \A c \in Clients :
        LET tokenless == /\ IsSome(before[c].session)
                         /\ IsNone(Unwrap(before[c].session).refresh_token)
        IN /\ Awaits(c, "refresh_session") => ~tokenless
           /\ (Returns(c, "refresh_session") /\ tokenless) =>
                 /\ Result(c).err = "MissingRefreshToken"
                 /\ calls[c] = 0
                 /\ IsNone(answer[c])
                 /\ current_session[c] = before[c].session

\* refresh_session entered with a token-less session has returned
C3_Witness ==
    \E c \in Clients :
        /\ Returns(c, "refresh_session")
        /\ IsSome(before[c].session)
        /\ IsNone(Unwrap(before[c].session).refresh_token)
        /\ ~Result(c).ok

\* C4: after a successful refresh_session, current_session is exactly the
\* session the Api returned, and so is the session returned to the caller.
C4_RefreshReplaces ==
    \A c \in Clients :
        (Returns(c, "refresh_session") /\ Result(c).ok) =>
            /\ Succeeded(c)
            /\ current_session[c] = Unwrap(answer[c]).value
            /\ Result(c).session = current_session[c]

\* a refresh has replaced a session by one with another access token and
\* no refresh token
C4_Witness ==
    \E c \in Clients :
        /\ Returns(c, "refresh_session")
        /\ Result(c).ok
        /\ IsSome(current_session[c])
        /\ IsNone(Unwrap(current_session[c]).refresh_token)
        /\ Unwrap(current_session[c]).access_token
              # Unwrap(before[c].session).access_token

\* C5: set_session with the empty string returns NotAuthenticated, issues
\* no Api call and leaves current_session; with a non-empty string, when
\* the Api succeeds, it stores exactly the returned session and returns it.
C5_SetSession ==
    \A c \in Clients :
        /\ Awaits(c, "set_session") => before[c].args # <<"">>
        /\ Returns(c, "set_session") =>
              /\ before[c].args = <<"">> =>
                    /\ Result(c).err = "NotAuthenticated"
                    /\ calls[c] = 0
                    /\ IsNone(answer[c])
                    /\ current_session[c] = before[c].session
              /\ (before[c].args # <<"">> /\ Succeeded(c)) =>
                    /\ Result(c).ok
                    /\ current_session[c] = Unwrap(answer[c]).value
                    /\ Result(c).session = current_session[c]

\* set_session("") was called with a session held
C5_Witness ==
    \E c \in Clients :
        /\ Returns(c, "set_session")
        /\ before[c].args = <<"">>
        /\ IsSome(before[c].session)

\* the status and the error kind each of the five operations distinguishes
Distinguished ==
    [sign_up |-> <<400, "AlreadySignedUp">>,
     sign_in |-> <<400, "WrongCredentials">>,
     verify_otp |-> <<400, "WrongToken">>,
     update_user |-> <<400, "UserNotFound">>,
     send_otp |-> <<422, "UserNotFound">>]

\* C6: sign_up, sign_in, verify_otp and update_user map a failure with
\* status 400, and send_otp one with status 422, to their own error kind,
\* and every other failure to InternalError.
C6_StatusMapping ==
    \A c \in Clients : \A op \in DOMAIN Distinguished :
        (Returns(c, op) /\ Failed(c)) =>
            LET e == Unwrap(Unwrap(answer[c]).error)
            IN Result(c).err =
                  IF e.is_status /\ e.status = Some(Distinguished[op][1])
                  THEN Distinguished[op][2]
                  ELSE "InternalError"

\* send_otp has failed with status 422
C6_Witness ==
    \E c \in Clients :
        /\ Returns(c, "send_otp")
        /\ Failed(c)
        /\ Unwrap(Unwrap(answer[c]).error).status = Some(422)
        /\ Result(c).err = "UserNotFound"

\* the statuses an operation distinguishes
DistinguishedCodes(op) ==
    IF op \in DOMAIN Distinguished THEN {Distinguished[op][1]} ELSE {}

\* the failure of the last Api call of c has a status its operation
\* does not distinguish
Undistinguished(c) ==
    /\ IsSome(ret[c])
    /\ Failed(c)
    /\ LET e == Unwrap(Unwrap(answer[c]).error)
       IN e.is_status /\ Unwrap(e.status) \notin DistinguishedCodes(Result(c).op)

\* C7 as stated: a failure with a status that the operation does not
\* distinguish yields InternalError, for every operation.
C7_CatchAllEveryOperation ==
    \A c \in Clients : Undistinguished(c) => Result(c).err = "InternalError"

\* C7 amended: a failure with a status that the operation does not
\* distinguish yields InternalError for every operation but
\* reset_password_for_email, which yields UserNotFound.
C7_CatchAll ==
    \A c \in Clients :
        Undistinguished(c) =>
            Result(c).err = IF Result(c).op = "reset_password_for_email"
                            THEN "UserNotFound"
                            ELSE "InternalError"

\* sign_out has failed with status 500
C7_Witness ==
    \E c \in Clients :
        /\ Returns(c, "sign_out")
        /\ Failed(c)
        /\ Unwrap(Unwrap(answer[c]).error).status = Some(500)
        /\ Result(c).err = "InternalError"

\* C8: after sign_out has returned success, current_session is absent.
C8_SignOutClears ==
    \A c \in Clients :
        (Returns(c, "sign_out") /\ Result(c).ok) => current_session[c] = None

\* C9: current_session is absent or holds a non-empty access token.
C9_SessionInvariant ==
    \A c \in Clients :
        IsSome(current_session[c]) => Unwrap(current_session[c]).access_token # ""

\* C10: after the Api has answered a sign_up or sign_in with success, the
\* call has returned success, current_session holds the access token, token
\* type and refresh token of the payload, or is absent when the payload
\* lacks a required key, and the returned session equals current_session.
C10_SignUpInStores ==
    \A c \in Clients : \A op \in {"sign_up", "sign_in"} :
        (Returns(c, op) /\ Succeeded(c)) =>
            LET v == Unwrap(Unwrap(answer[c]).value)
            IN /\ Result(c).ok
               /\ Result(c).session = current_session[c]
               /\ IF v.access_token = None \/ v.token_type = None
                  THEN current_session[c] = None
                  ELSE /\ IsSome(current_session[c])
                       /\ Some(Unwrap(current_session[c]).access_token) = v.access_token
                       /\ Some(Unwrap(current_session[c]).token_type) = v.token_type
                       /\ Unwrap(current_session[c]).refresh_token = v.refresh_token

\* a sign_up entered with a session held was answered by a payload with a
\* user and no session
C10_Witness ==
    \E c \in Clients :
        /\ Returns(c, "sign_up")
        /\ Succeeded(c)
        /\ IsSome(before[c].session)
        /\ IsNone(Unwrap(Unwrap(answer[c]).value).access_token)
        /\ IsSome(Result(c).user)
        /\ current_session[c] = None

\* C11: after verify_otp has returned, whatever the Api answered and
\* whatever was held before, current_session is absent.
C11_VerifyOtpNoSession ==
    \A c \in Clients : Returns(c, "verify_otp") => current_session[c] = None

\* a verify_otp entered with a session held was answered by a payload that
\* carries a decodable session
C11_Witness ==
    \E c \in Clients :
        /\ Returns(c, "verify_otp")
        /\ Result(c).ok
        /\ IsSome(before[c].session)
        /\ IsSome(Unwrap(Unwrap(answer[c]).value).access_token)
        /\ IsSome(Unwrap(Unwrap(answer[c]).value).token_type)

FrameOps == {"send_otp", "reset_password_for_email", "update_user", "sign_out"}

\* C12: from the entry of a send_otp, reset_password_for_email, update_user
\* or sign_out to its return, in every outcome, current_session and
\* current_user are what they were at the entry.
C12_Frame ==
    \A c \in Clients : \A op \in FrameOps :
        (Awaits(c, op) \/ Returns(c, op)) =>
            /\ current_session[c] = before[c].session
            /\ current_user[c] = before[c].user

\* sign_out has returned success and the session is still held
C12_Witness ==
    \E c \in Clients :
        /\ Returns(c, "sign_out")
        /\ Result(c).ok
        /\ IsSome(current_session[c])

\* C13: reset_password_for_email always reaches the Api, with or without a
\* session held, and maps every failure of the Api to UserNotFound.
C13_ResetPassword ==
    \A c \in Clients :
        Returns(c, "reset_password_for_email") =>
            /\ IsSome(answer[c])
            /\ Result(c).err \notin {"InternalError", "NotAuthenticated"}
            /\ Failed(c) => Result(c).err = "UserNotFound"

\* reset_password_for_email, entered with no session held, has failed with
\* status 500
C13_Witness ==
    \E c \in Clients :
        /\ Returns(c, "reset_password_for_email")
        /\ IsNone(before[c].session)
        /\ Failed(c)
        /\ Unwrap(Unwrap(answer[c]).error).status = Some(500)

\* instance c takes the step: it enters an operation or returns from one
Acts(c) ==
    <<pending[c], answer[c], ret[c], calls[c], before[c]>>'
        # <<pending[c], answer[c], ret[c], calls[c], before[c]>>

\* C14: each of two instances starts with current_session and current_user
\* absent, and a step of an operation on one instance leaves the
\* current_session and current_user of the other instance unchanged.
C14_PerInstance ==
    /\ \A c \in Instances : current_session[c] = None /\ current_user[c] = None
    /\ [][\A c \in Instances : \A d \in Instances \ {c} :
             Acts(c) => /\ current_session'[d] = current_session[d]
                        /\ current_user'[d] = current_user[d]]_vars

\* one instance holds a session while a sign_up on the other instance, entered
\* with a session held, is in flight with its session cleared
C14_Witness ==
    /\ DOMAIN current_session = Instances
    /\ IsSome(current_session["c1"])
    /\ Awaits("c2", "sign_up")
    /\ IsSome(before["c2"].session)
    /\ current_session["c2"] = None

\* C15: an invocation issues at most one Api call, none when a precondition
\* fails; while the call is in flight no answer has been consumed, and once
\* the Api has failed the invocation has returned an error after one call.
C15_OneRoundTrip ==
    \A c \in Clients :
        /\ calls[c] \in {0, 1}
        /\ IsSome(pending[c]) => (calls[c] = 1 /\ IsNone(answer[c]))
        /\ (IsSome(ret[c]) /\ IsNone(answer[c])) =>
              (calls[c] = 0 /\ Result(c).err \in {"NotAuthenticated", "MissingRefreshToken"})
        /\ Failed(c) =>
              (Idle(c) /\ IsSome(ret[c]) /\ ~Result(c).ok /\ calls[c] = 1)

\* refresh_session has returned after a failure of the Api
C15_Witness ==
    \E c \in Clients :
        /\ Returns(c, "refresh_session")
        /\ Failed(c)
        /\ calls[c] = 1

\* C16: when the Api call of refresh_session or set_session fails, with any
\* status, the operation returns InternalError and current_session is what
\* it was at the entry.
C16_RefreshFailureKeeps ==
    \A c \in Clients : \A op \in {"refresh_session", "set_session"} :
        (Returns(c, op) /\ Failed(c)) =>
            /\ Result(c).err = "InternalError"
            /\ current_session[c] = before[c].session

\* set_session, entered with a session held, has failed with status 400
C16_Witness ==
    \E c \in Clients :
        /\ Returns(c, "set_session")
        /\ Failed(c)
        /\ Unwrap(Unwrap(answer[c]).error).status = Some(400)
        /\ IsSome(current_session[c])

\* C17: the access token that sign_out or update_user passes to the Api,
\* and the refresh token that refresh_session passes, is the one of the
\* session returned by the last successful sign_up, sign_in, refresh_session
\* or set_session, and no sign_up, sign_in or verify_otp was entered since.
C17_NoStaleCredentials ==
    \A c \in Clients :
        /\ Awaits(c, "sign_out") =>
              /\ IsSome(established[c])
              /\ Unwrap(pending[c]).request[1] = Unwrap(established[c]).access_token
        /\ Awaits(c, "update_user") =>
              /\ IsSome(established[c])
              /\ Unwrap(pending[c]).request[2] = Unwrap(established[c]).access_token
        /\ Awaits(c, "refresh_session") =>
              /\ IsSome(established[c])
              /\ Some(Unwrap(pending[c]).request[1]) = Unwrap(established[c]).refresh_token

\* sign_out passes the access token t2 of the established session
C17_Witness ==
    \E c \in Clients :
        /\ Awaits(c, "sign_out")
        /\ IsSome(established[c])
        /\ Unwrap(pending[c]).request[1] = "t2"

\* the operations that assign current_session; all of them take &mut self
AssigningOps == {"sign_up", "sign_in", "verify_otp", "refresh_session", "set_session"}

\* C18 as stated needs two operations of one instance in flight at once:
\* while sign_in awaits the Api, refresh_session or set_session can be
\* entered on the same instance.
C18_InterleavedCalls ==
    \A c \in Clients :
        Awaits(c, "sign_in") =>
            ENABLED (refresh_session_begin(c) \/ set_session_begin(c))

\* C18 amended: an operation that assigns current_session holds its instance
\* exclusively.  While it is in flight current_session is what the operation
\* left at its entry, and the next step of the instance is the return of
\* that operation, which leaves current_session or stores the session it
\* returns; no session stored by another operation is lost.
C18_Exclusive ==
    /\ [](\A c \in Clients : \A op \in AssigningOps :
             Awaits(c, op) =>
                current_session[c] = IF op \in AttemptOps THEN None
                                     ELSE before[c].session)
    /\ [][\A c \in Clients : \A op \in AssigningOps :
             (Awaits(c, op) /\ Acts(c)) =>
                /\ Idle(c)'
                /\ Returns(c, op)'
                /\ before'[c] = before[c]
                /\ current_session'[c] \in {current_session[c], Result(c)'.session}]_vars

\* sign_in, entered with a session held, is in flight
C18_Witness ==
    \E c \in Clients :
        /\ Awaits(c, "sign_in")
        /\ IsSome(before[c].session)
        /\ current_session[c] = None

\* C19: current_user is absent in every reachable state.
C19_NoCurrentUser ==
    \A c \in Clients : current_user[c] = None

\* sign_up has returned a User
C19_Witness ==
    \E c \in Clients :
        /\ Returns(c, "sign_up")
        /\ IsSome(Result(c).user)
        /\ current_user[c] = None
====
